--------------------------- MODULE Spec2Model ---------------------------
(***************************************************************************)
(* Otter-Assign (src/otter/assign.py): the transformation of a master      *)
(* notebook into an autograder (instructor) view and a student (learner)   *)
(* view.                                                                   *)
(*                                                                         *)
(* Text is modelled at character level: a Python str is a sequence of      *)
(* one-character strings, so that the regular expressions, split/join,     *)
(* strip and the doctest rendering are computed as the code computes them. *)
(* A dict is a function whose domain is the set of its keys; a directory   *)
(* of test files is a set of [path, test] records with pairwise distinct   *)
(* paths.  Line indices are 1-based here and 0-based in the source.        *)
(***************************************************************************)
EXTENDS Naturals, Integers, Sequences, FiniteSets, TLC

VARIABLES
    cells,              \* the master notebook's cells read so far by the loop of gen_ok_cells
    pc,                 \* position in gen_views: scan, returned, done, error
    ok_cells,           \* gen_ok_cells: the emitted cells
    question,           \* gen_ok_cells: metadata of the open question ({} when none)
    processed_response, \* gen_ok_cells: the first cell after the question cell was seen
    tests,              \* gen_ok_cells: buffered public tests
    hidden_tests,       \* gen_ok_cells: buffered hidden tests
    manual_questions,   \* gen_ok_cells: names of the manual questions
    md_has_prompt,      \* gen_ok_cells: a visible prompt was seen for the open question
    autograder_dir,     \* result/autograder: [has_nb, nb, tests]
    student_dir,        \* result/student:    [exists, has_nb, nb, tests]
    args,               \* the options convert_to_ok reads
    seg_before,         \* history: the Segmenter state in which the last cell was scanned
    scanned,            \* history: every buffered test with the name of the question then open
    u_pc,               \* unit harness: idle (unused), call, ret
    u_in,               \* unit harness: the argument of the function under check
    u_out               \* unit harness: its result

vars == <<cells, pc, ok_cells, question, processed_response, tests, hidden_tests,
          manual_questions, md_has_prompt, autograder_dir, student_dir, args,
          seg_before, scanned, u_pc, u_in, u_out>>

seg_vars == <<ok_cells, question, processed_response, tests, hidden_tests,
              manual_questions, md_has_prompt>>

main_vars == <<cells, pc, ok_cells, question, processed_response, tests, hidden_tests,
               manual_questions, md_has_prompt, autograder_dir, student_dir, args,
               seg_before, scanned>>

unit_vars == <<u_pc, u_in, u_out>>

(***************************************************************************)
(* String constants of the source.  BT stands for the backtick character,  *)
(* which the parser does not accept inside a string.                       *)
(***************************************************************************)
BT == "<backtick>"

BLOCK_QUOTE == <<BT,BT,BT>>
MD_ANSWER_CELL_TEMPLATE ==
    <<"_","T","y","p","e"," ","y","o","u","r"," ","a","n","s","w","e","r"," ","h","e","r","e",
      ","," ","r","e","p","l","a","c","i","n","g"," ","t","h","i","s"," ","t","e","x","t",".",
      "_">>
BEGIN_QUESTION == <<"B","E","G","I","N"," ","Q","U","E","S","T","I","O","N">>
BEGIN_QUESTION_COMMENT ==
    <<"<","!","-","-"," ","B","E","G","I","N"," ","Q","U","E","S","T","I","O","N"," ","-","-",
      ">">>
END_QUESTION_COMMENT ==
    <<"<","!","-","-"," ","E","N","D"," ","Q","U","E","S","T","I","O","N"," ","-","-",">">>
COMMENT_OPEN == <<"<","!","-","-">>
COMMENT_CLOSE == <<"-","-",">">>
STATEMENT_PREFIX == <<">",">",">"," ">>
CONTINUATION_PREFIX == <<".",".","."," ">>
STATEMENT_MARK == <<">",">",">">>
HIDDEN_SUFFIX == <<"H">>
PY_SUFFIX == <<".","p","y">>
INIT_PY == <<"_","_","i","n","i","t","_","_",".","p","y">>
CHECK_OPEN == <<"g","r","a","d","e","r",".","c","h","e","c","k","(","\"">>
CHECK_CLOSE == <<"\"",")">>
INIT_CELL_SOURCE ==
    <<"#"," ","I","n","i","t","i","a","l","i","z","e"," ","O","t","t","e","r","\n","i","m","p",
      "o","r","t"," ","o","t","t","e","r","\n","g","r","a","d","e","r"," ","="," ","o","t","t",
      "e","r",".","N","o","t","e","b","o","o","k","(",")">>
CHECK_ALL_INSTRUCTIONS ==
    <<"T","o"," ","d","o","u","b","l","e","-","c","h","e","c","k"," ","y","o","u","r"," ","w",
      "o","r","k",","," ","t","h","e"," ","c","e","l","l"," ","b","e","l","o","w"," ","w","i",
      "l","l"," ","r","e","r","u","n"," ","a","l","l"," ","o","f"," ","t","h","e"," ","a","u",
      "t","o","g","r","a","d","e","r"," ","t","e","s","t","s",".">>
CHECK_ALL_SOURCE == <<"g","r","a","d","e","r",".","c","h","e","c","k","_","a","l","l","(",")">>
EXPORT_INSTRUCTIONS ==
    <<"#","#"," ","S","u","b","m","i","s","s","i","o","n","\n","\n","M","a","k","e"," ","s","u",
      "r","e"," ","y","o","u"," ","h","a","v","e"," ","r","u","n"," ","a","l","l"," ","c","e",
      "l","l","s"," ","i","n"," ","y","o","u","r"," ","n","o","t","e","b","o","o","k"," ","i",
      "n"," ","o","r","d","e","r"," ","b","e","f","o","r","e"," "," "," "," "," ","r","u","n",
      "n","i","n","g"," ","t","h","e"," ","c","e","l","l"," ","b","e","l","o","w",","," ","s",
      "o"," ","t","h","a","t"," ","a","l","l"," ","i","m","a","g","e","s","/","g","r","a","p",
      "h","s"," ","a","p","p","e","a","r"," ","i","n"," ","t","h","e"," ","o","u","t","p","u",
      "t","."," ","*","*","P","l","e","a","s","e"," ","s","a","v","e"," ","b","e","f","o","r",
      "e"," ","s","u","b","m","i","t","t","i","n","g","!","*","*">>
EXPORT_COMMENT ==
    <<"#"," ","S","a","v","e"," ","y","o","u","r"," ","n","o","t","e","b","o","o","k"," ","f",
      "i","r","s","t",","," ","t","h","e","n"," ","r","u","n"," ","t","h","i","s"," ","c","e",
      "l","l"," ","t","o"," ","e","x","p","o","r","t",".">>
EXPORT_OPEN == <<"g","r","a","d","e","r",".","e","x","p","o","r","t","(","\"">>
EXPORT_BUFFER == <<" ">>
W_HASHES == <<"#","#">>
W_hidden == <<"h","i","d","d","e","n">>
W_test == <<"t","e","s","t">>
W_solution == <<"s","o","l","u","t","i","o","n">>
W_strong_open == <<"<","s","t","r","o","n","g",">">>
W_strong_close == <<"<","/","s","t","r","o","n","g",">">>
W_stars == <<"*","*">>
W_colon == <<":">>
K_name == <<"n","a","m","e">>
K_manual == <<"m","a","n","u","a","l">>
K_points == <<"p","o","i","n","t","s">>
K_public_points == <<"p","u","b","l","i","c","_","p","o","i","n","t","s">>
K_private_points == <<"p","r","i","v","a","t","e","_","p","o","i","n","t","s">>
Y_true == <<"t","r","u","e">>
Y_false == <<"f","a","l","s","e">>

(***************************************************************************)
(* Characters and strings.                                                 *)
(***************************************************************************)
NL == "\n"

UPPER ==
    <<"A","B","C","D","E","F","G","H","I","J","K","L","M","N","O","P","Q","R","S","T","U","V",
      "W","X","Y","Z">>

LOWER ==
    <<"a","b","c","d","e","f","g","h","i","j","k","l","m","n","o","p","q","r","s","t","u","v",
      "w","x","y","z">>

DIGITS == <<"0","1","2","3","4","5","6","7","8","9">>

Range(f) == { f[x] : x \in DOMAIN f }

IsLetter(c) == c \in Range(UPPER) \cup Range(LOWER)

IsDigit(c) == c \in Range(DIGITS)

\* the class \s of re, and the characters str.strip() removes
IsSpace(c) == c \in {" ", "\t", "\n", "\r", "\f"}

\* re.IGNORECASE compares case-folded characters
lower(c) ==
    IF c \in Range(UPPER) THEN LOWER[CHOOSE k \in DOMAIN UPPER : UPPER[k] = c] ELSE c

\* s[i:].startswith(w)
StartsWithAt(s, i, w) ==
    /\ i + Len(w) - 1 <= Len(s)
    /\ \A k \in 1..Len(w) : s[i + k - 1] = w[k]

\* the same under re.IGNORECASE, w in lower case
StartsWithAtCI(s, i, w) ==
    /\ i + Len(w) - 1 <= Len(s)
    /\ \A k \in 1..Len(w) : lower(s[i + k - 1]) = w[k]

startswith(s, w) == StartsWithAt(s, 1, w)

endswith(s, w) == Len(w) <= Len(s) /\ StartsWithAt(s, Len(s) - Len(w) + 1, w)

\* the position after a greedy \s* that starts at position i
SkipSpace(s, i) ==
    CHOOSE j \in i..(Len(s) + 1) :
        /\ \A k \in i..(j - 1) : IsSpace(s[k])
        /\ (j = Len(s) + 1 \/ ~IsSpace(s[j]))

\* str.strip(chars)
StripChars(s, chars) ==
    IF \A k \in 1..Len(s) : s[k] \in chars THEN <<>>
    ELSE LET a == CHOOSE i \in 1..Len(s) : s[i] \notin chars /\ \A k \in 1..(i - 1) : s[k] \in chars
             b == CHOOSE j \in 1..Len(s) : s[j] \notin chars /\ \A k \in (j + 1)..Len(s) : s[k] \in chars
         IN  SubSeq(s, a, b)

\* str.strip()
strip(s) == StripChars(s, {" ", "\t", "\n", "\r", "\f"})

\* str.split('\n')
RECURSIVE split(_)
split(s) ==
    IF \E k \in 1..Len(s) : s[k] = NL
    THEN LET k == CHOOSE i \in 1..Len(s) : s[i] = NL /\ \A j \in 1..(i - 1) : s[j] # NL
         IN  <<SubSeq(s, 1, k - 1)>> \o split(SubSeq(s, k + 1, Len(s)))
    ELSE <<s>>

\* '\n'.join(lines)
RECURSIVE join(_)
join(lines) ==
    IF lines = <<>> THEN <<>>
    ELSE IF Len(lines) = 1 THEN lines[1]
    ELSE lines[1] \o <<NL>> \o join(Tail(lines))

\* list.reverse()
Reverse(seq) == [k \in 1..Len(seq) |-> seq[Len(seq) + 1 - k]]

\* del seq[i]
DelAt(seq, i) == SubSeq(seq, 1, i - 1) \o SubSeq(seq, i + 1, Len(seq))

(***************************************************************************)
(* The regular expressions (lines 29-34), matched as re.match does: at the *)
(* start of the string, the rest of the string free.  Each pattern is      *)
(* deterministic (the alternatives start with different characters), so a  *)
(* single left-to-right pass decides the match.                            *)
(***************************************************************************)
\* TEST_REGEX = r"##\s*(hidden\s*)?test\s*##", re.IGNORECASE
match_TEST_REGEX(line) ==
    /\ StartsWithAt(line, 1, W_HASHES)
    /\ LET a == SkipSpace(line, 3)
           b == IF StartsWithAtCI(line, a, W_hidden) THEN SkipSpace(line, a + Len(W_hidden)) ELSE a
       IN  /\ StartsWithAtCI(line, b, W_test)
           /\ StartsWithAt(line, SkipSpace(line, b + Len(W_test)), W_HASHES)

\* SOLUTION_REGEX = r"##\s*solution\s*##", re.IGNORECASE
match_SOLUTION_REGEX(line) ==
    /\ StartsWithAt(line, 1, W_HASHES)
    /\ LET a == SkipSpace(line, 3)
       IN  /\ StartsWithAtCI(line, a, W_solution)
           /\ StartsWithAt(line, SkipSpace(line, a + Len(W_solution)), W_HASHES)

\* MD_SOLUTION_REGEX = r"(<strong>|\*{2})solution:?(<\/strong>|\*{2})", re.IGNORECASE
match_MD_SOLUTION_REGEX(line) ==
    LET a == IF StartsWithAtCI(line, 1, W_strong_open) THEN Len(W_strong_open) + 1
             ELSE IF StartsWithAt(line, 1, W_stars) THEN Len(W_stars) + 1
             ELSE 0
        b == a + Len(W_solution)
        c == IF StartsWithAt(line, b, W_colon) THEN b + 1 ELSE b
    IN  /\ a # 0
        /\ StartsWithAtCI(line, a, W_solution)
        /\ (StartsWithAtCI(line, c, W_strong_close) \/ StartsWithAt(line, c, W_stars))

\* re.search("hidden", line, flags=re.IGNORECASE)
search_hidden(line) == \E i \in 1..Len(line) : StartsWithAtCI(line, i, W_hidden)

\* ALLOWED_NAME.match(s) for a str s: the length of the prefix the pattern
\* [A-Za-z][A-Za-z0-9_]* matches (greedy), or -1 for None (no match)
ALLOWED_NAME_match(s) ==
    IF s = <<>> \/ ~IsLetter(s[1]) THEN -1
    ELSE CHOOSE n \in 1..Len(s) :
            /\ \A k \in 2..n : IsLetter(s[k]) \/ IsDigit(s[k]) \/ s[k] = "_"
            /\ (n = Len(s) \/ ~(IsLetter(s[n + 1]) \/ IsDigit(s[n + 1]) \/ s[n + 1] = "_"))

(***************************************************************************)
(* Cells.  A cell is [cell_type, source, outputs, metadata]; source is the *)
(* str nbformat holds, metadata is the pair of flags lock() sets (a key    *)
(* that is absent in the notebook reads TRUE here), and a markdown cell,   *)
(* which has no 'outputs' key, has outputs = <<>>.                         *)
(***************************************************************************)
UNLOCKED == [editable |-> TRUE, deletable |-> TRUE]

new_markdown_cell(source) ==
    [cell_type |-> "markdown", source |-> source, outputs |-> <<>>, metadata |-> UNLOCKED]

new_code_cell(source) ==
    [cell_type |-> "code", source |-> source, outputs |-> <<>>, metadata |-> UNLOCKED]

lock(cell) == [cell EXCEPT !.metadata = [editable |-> FALSE, deletable |-> FALSE]]

\* the str branch of get_source
get_source(cell) == split(cell.source)

(***************************************************************************)
(* Cell Classifier.                                                        *)
(***************************************************************************)
\* block_quotes: the indices of the lines equal to BLOCK_QUOTE, ascending
block_quotes(source) ==
    LET F[k \in 0..Len(source)] ==
            IF k = 0 THEN <<>>
            ELSE IF source[k] = BLOCK_QUOTE THEN Append(F[k - 1], k) ELSE F[k - 1]
    IN  F[Len(source)]

\* begins: the line after every opening fence that reads BEGIN QUESTION
begins(source) ==
    LET bq == block_quotes(source)
        F[k \in 0..Len(bq)] ==
            IF k = 0 THEN <<>>
            ELSE IF k % 2 = 1 /\ StripChars(source[bq[k] + 1], {" "}) = BEGIN_QUESTION
                 THEN Append(F[k - 1], bq[k] + 1)
                 ELSE F[k - 1]
    IN  F[Len(bq)]

\* the two assertions of find_question_spec
find_question_spec_raises(source) ==
    \/ Len(block_quotes(source)) % 2 # 0
    \/ Len(begins(source)) > 1

\* the line index of BEGIN QUESTION, or 0 for None
find_question_spec(source) ==
    IF begins(source) # <<>> THEN begins(source)[1] ELSE 0

is_question_cell_raises(cell) ==
    cell.cell_type = "markdown" /\ find_question_spec_raises(get_source(cell))

is_question_cell(cell) ==
    IF cell.cell_type # "markdown" THEN FALSE
    ELSE find_question_spec(get_source(cell)) # 0

is_solution_cell(cell) ==
    LET source == get_source(cell)
    IN  IF cell.cell_type = "markdown"
        THEN source # <<>> /\ \E k \in 1..Len(source) : match_MD_SOLUTION_REGEX(source[k])
        ELSE IF cell.cell_type = "code"
        THEN source # <<>> /\ match_SOLUTION_REGEX(source[1])
        ELSE FALSE

\* `is_solution_cell and any(...)`: the function object is_solution_cell is
\* truthy, so the value is that of any(...), whatever the cell type
is_markdown_solution_cell(cell) ==
    LET source == get_source(cell)
    IN  TRUE /\ \E k \in 1..Len(source) : match_MD_SOLUTION_REGEX(source[k])

is_test_cell(cell) ==
    IF cell.cell_type # "code" THEN FALSE
    ELSE LET source == get_source(cell)
         IN  source # <<>> /\ match_TEST_REGEX(source[1])

(***************************************************************************)
(* Metadata Parser.  yaml.load is modelled for the documents the question  *)
(* fences hold: a block mapping of plain scalars, one "key: value" a line. *)
(* A parsed value is tagged with its Python type: [t, v].                  *)
(***************************************************************************)
PyStr(s) == [t |-> "str", v |-> s]

PyInt(n) == [t |-> "int", v |-> n]

PyBool(b) == [t |-> "bool", v |-> b]

PyNone == [t |-> "None", v |-> 0]

\* bool(x)
Truthy(x) ==
    CASE x.t = "bool" -> x.v
      [] x.t = "int" -> x.v # 0
      [] x.t = "str" -> x.v # <<>>
      [] OTHER -> FALSE

EmptyDict == [k \in {} |-> PyNone]

\* d.get(k, default)
Get(d, k, default) == IF k \in DOMAIN d THEN d[k] ELSE default

DigitValue(c) == (CHOOSE k \in DOMAIN DIGITS : DIGITS[k] = c) - 1

\* int(s) for a str of digits and underscores
RECURSIVE DecimalValue(_)
DecimalValue(s) ==
    IF s = <<>> THEN 0
    ELSE IF s[Len(s)] = "_" THEN DecimalValue(SubSeq(s, 1, Len(s) - 1))
    ELSE 10 * DecimalValue(SubSeq(s, 1, Len(s) - 1)) + DigitValue(s[Len(s)])

\* the implicit resolver of yaml for a plain scalar: null, bool, int, else str
yaml_scalar(text) ==
    LET s == strip(text)
        unsigned == IF s # <<>> /\ s[1] \in {"-", "+"} THEN Tail(s) ELSE s
    IN  IF s = <<>> THEN PyNone
        ELSE IF s = Y_true THEN PyBool(TRUE)
        ELSE IF s = Y_false THEN PyBool(FALSE)
        ELSE IF /\ unsigned # <<>>
                /\ IsDigit(unsigned[1])
                /\ \A k \in 1..Len(unsigned) : IsDigit(unsigned[k]) \/ unsigned[k] = "_"
             THEN PyInt(IF s[1] = "-" THEN 0 - DecimalValue(unsigned) ELSE DecimalValue(unsigned))
        ELSE PyStr(s)

\* the position of the mapping indicator of a line: the first ':' that is
\* followed by a space or ends the line; 0 when the line has none
colon_at(line) ==
    IF \E i \in 1..Len(line) : line[i] = ":" /\ (i = Len(line) \/ line[i + 1] = " ")
    THEN CHOOSE i \in 1..Len(line) :
            /\ line[i] = ":" /\ (i = Len(line) \/ line[i + 1] = " ")
            /\ \A j \in 1..(i - 1) : ~(line[j] = ":" /\ line[j + 1] = " ")
    ELSE 0

yaml_key(line) == strip(SubSeq(line, 1, colon_at(line) - 1))

yaml_value(line) == yaml_scalar(SubSeq(line, colon_at(line) + 1, Len(line)))

\* the lines of the document that hold something
yaml_entries(lines) == SelectSeq(lines, LAMBDA l : strip(l) # <<>>)

\* yaml.load gives None for an empty document (and .get then fails), and
\* fails on a line that is no "key: value" entry
yaml_load_raises(lines) ==
    \/ yaml_entries(lines) = <<>>
    \/ \E k \in 1..Len(yaml_entries(lines)) : colon_at(yaml_entries(lines)[k]) = 0

\* the mapping; of two entries with one key the later one stands
yaml_load(lines) ==
    LET es == yaml_entries(lines)
        keys == { yaml_key(es[k]) : k \in 1..Len(es) }
        last(key) == CHOOSE k \in 1..Len(es) :
                        yaml_key(es[k]) = key /\ \A j \in (k + 1)..Len(es) : yaml_key(es[j]) # key
    IN  [key \in keys |-> yaml_value(es[last(key)])]

\* the lines between BEGIN QUESTION and the closing fence
metadata_lines(source) ==
    LET b == find_question_spec(source)
        e == CHOOSE i \in (b + 1)..Len(source) :
                /\ strip(source[i]) = BLOCK_QUOTE
                /\ \A j \in (b + 1)..(i - 1) : strip(source[j]) # BLOCK_QUOTE
    IN  SubSeq(source, b + 1, e - 1)

\* assert ALLOWED_NAME.match(metadata.get('name', '')); re.match of a value
\* that is no str raises TypeError
name_assertion_fails(metadata) ==
    LET name == Get(metadata, K_name, PyStr(<<>>))
    IN  name.t # "str" \/ ALLOWED_NAME_match(name.v) = -1

read_question_metadata_raises(cell) ==
    LET lines == metadata_lines(get_source(cell))
    IN  yaml_load_raises(lines) \/ name_assertion_fails(yaml_load(lines))

read_question_metadata(cell) == yaml_load(metadata_lines(get_source(cell)))

(***************************************************************************)
(* Tests.  An output record of a code cell is [text, plain, plain_is_list]:*)
(* text is the 'text' payload ("" when absent), plain holds the            *)
(* data['text/plain'] payload: <<>> when absent, <<s>> for a str s, the    *)
(* list itself (plain_is_list) for a list of str.                          *)
(***************************************************************************)
Test(input, output, hidden) == [input |-> input, output |-> output, hidden |-> hidden]

\* one pass of the loop of read_test: what output record o adds
output_text(o) ==
    o.text \o
    (IF o.plain # <<>> /\ o.plain_is_list THEN o.plain[1]
     ELSE IF o.plain # <<>> /\ o.plain[1] # <<>> THEN o.plain[1]
     ELSE <<>>)

read_test(cell) ==
    LET source == get_source(cell)
        out[k \in 0..Len(cell.outputs)] ==
            IF k = 0 THEN <<>> ELSE out[k - 1] \o output_text(cell.outputs[k])
    IN  Test(join(Tail(source)), out[Len(cell.outputs)], search_hidden(source[1]))

\* add or overwrite the file at path
write_test(tests_dir, path, test) ==
    { f \in tests_dir : f.path # path } \cup { [path |-> path, test |-> test] }

(***************************************************************************)
(* Test Compiler.                                                          *)
(***************************************************************************)
\* the first loop of gen_case: the prompt of every input line
prompt_lines(lines) ==
    [k \in 1..Len(lines) |->
        IF \/ (lines[k] # <<>> /\ IsSpace(lines[k][1]))
           \/ (k > 1 /\ endswith(lines[k - 1], <<"\\">>))
        THEN CONTINUATION_PREFIX \o lines[k]
        ELSE STATEMENT_PREFIX \o lines[k]]

\* the second loop of gen_case, with the length taken after the prompt
suppress_after_prompt(code_lines) ==
    [i \in 1..Len(code_lines) |->
        IF /\ i < Len(code_lines)
           /\ startswith(code_lines[i + 1], STATEMENT_MARK)
           /\ Len(strip(code_lines[i])) - Len(STATEMENT_MARK) > 3
           /\ ~endswith(code_lines[i], <<"\\">>)
        THEN code_lines[i] \o <<";">>
        ELSE code_lines[i]]

\* the second loop of gen_case, off by one: range(len(code_lines) - 2)
suppress_short(code_lines) ==
    [i \in 1..Len(code_lines) |->
        IF /\ i < Len(code_lines) - 1
           /\ startswith(code_lines[i + 1], STATEMENT_MARK)
           /\ Len(strip(code_lines[i])) > 3
           /\ ~endswith(code_lines[i], <<"\\">>)
        THEN code_lines[i] \o <<";">>
        ELSE code_lines[i]]

\* the second loop of gen_case: suppress intermediate output.  Pass i reads
\* lines i and i+1 and writes line i only, so no pass reads a written line.
suppress(code_lines) ==
    [i \in 1..Len(code_lines) |->
        IF /\ i < Len(code_lines)
           /\ startswith(code_lines[i + 1], STATEMENT_MARK)
           /\ Len(strip(code_lines[i])) > 3
           /\ ~endswith(code_lines[i], <<"\\">>)
        THEN code_lines[i] \o <<";">>
        ELSE code_lines[i]]

gen_case(test) ==
    LET code_lines == suppress(prompt_lines(split(test.input)))
    IN  [code |-> join(Append(code_lines, test.output)),
         hidden |-> test.hidden,
         locked |-> FALSE]

gen_suite(ts) ==
    [cases |-> [k \in 1..Len(ts) |-> gen_case(ts[k])], scored |-> TRUE, setup |-> <<>>, teardown |-> <<>>,
     type |-> "doctest"]

\* the point value, with a question that has only private_points giving
\* its public tier question.get('points', 1) instead of 0
resolve_points_no_zero(q, hidden) ==
    IF K_public_points \in DOMAIN q /\ K_private_points \in DOMAIN q
    THEN IF hidden THEN q[K_private_points] ELSE q[K_public_points]
    ELSE IF K_public_points \in DOMAIN q THEN q[K_public_points]
    ELSE IF K_private_points \in DOMAIN q /\ hidden THEN q[K_private_points]
    ELSE Get(q, K_points, PyInt(1))

\* the point value gen_test_cell computes (lines 348-368)
resolve_points(q, hidden) ==
    IF K_public_points \in DOMAIN q /\ K_private_points \in DOMAIN q
    THEN IF hidden THEN q[K_private_points] ELSE q[K_public_points]
    ELSE IF K_public_points \in DOMAIN q THEN q[K_public_points]
    ELSE IF K_private_points \in DOMAIN q
    THEN IF hidden THEN q[K_private_points] ELSE PyInt(0)
    ELSE Get(q, K_points, PyInt(1))

test_path(q, hidden) ==
    IF hidden THEN q[K_name].v \o HIDDEN_SUFFIX \o PY_SUFFIX ELSE q[K_name].v \o PY_SUFFIX

\* gen_test_cell: the grading cell it returns and the tests directory after
\* write_test
gen_test_cell(q, ts, tests_dir, hidden) ==
    LET source == IF hidden THEN CHECK_OPEN \o q[K_name].v \o HIDDEN_SUFFIX \o CHECK_CLOSE
                  ELSE CHECK_OPEN \o q[K_name].v \o CHECK_CLOSE
        test == [name |-> q[K_name],
                 points |-> resolve_points(q, hidden),
                 hidden |-> hidden,
                 suites |-> <<gen_suite(ts)>>]
    IN  [cell |-> lock(new_code_cell(source)),
         tests_dir |-> write_test(tests_dir, test_path(q, hidden), test)]

(***************************************************************************)
(* Bounds and inputs.                                                      *)
(***************************************************************************)
\* the longest master notebook read
MaxCells == 4

NB_NAME == <<"h","w",".","i","p","y","n","b">>
SRC_Q1 ==
    <<BT,BT,BT,"\n","B","E","G","I","N"," ","Q","U","E","S","T","I","O","N","\n","n","a","m",
      "e",":"," ","q","1","\n",BT,BT,BT>>
SRC_Q2_MANUAL ==
    <<BT,BT,BT,"\n","B","E","G","I","N"," ","Q","U","E","S","T","I","O","N","\n","n","a","m",
      "e",":"," ","q","2","\n","m","a","n","u","a","l",":"," ","t","r","u","e","\n",BT,BT,BT>>
SRC_Q1H ==
    <<BT,BT,BT,"\n","B","E","G","I","N"," ","Q","U","E","S","T","I","O","N","\n","n","a","m",
      "e",":"," ","q","1","H","\n",BT,BT,BT>>
SRC_MD_TEXT == <<"t","e","x","t">>
SRC_CODE == <<"1"," ","+"," ","1">>
SRC_MD_SOLUTION == <<"*","*","S","o","l","u","t","i","o","n",":","*","*"," ","2">>
SRC_CODE_SOLUTION ==
    <<"#","#"," ","s","o","l","u","t","i","o","n"," ","#","#","\n","x"," ","="," ","2">>
SRC_TEST == <<"#","#"," ","t","e","s","t"," ","#","#","\n","2"," ","+"," ","2">>
SRC_HIDDEN_TEST ==
    <<"#","#"," ","h","i","d","d","e","n"," ","t","e","s","t"," ","#","#","\n","x">>
SRC_ODD_FENCE == <<BT,BT,BT>>
SRC_ODD_FENCE_SOLUTION ==
    <<BT,BT,BT,"\n","*","*","S","o","l","u","t","i","o","n",":","*","*"," ","2">>
SRC_Q3_SOLUTION ==
    <<BT,BT,BT,"\n","B","E","G","I","N"," ","Q","U","E","S","T","I","O","N","\n","n","a","m",
      "e",":"," ","q","3","\n",BT,BT,BT,"\n","*","*","S","o","l","u","t","i","o","n",":","*","*"," ","2">>
SRC_CODE_SOLUTION_MD ==
    <<"#","#"," ","s","o","l","u","t","i","o","n"," ","#","#","\n",
      "*","*","S","o","l","u","t","i","o","n",":","*","*"," ","2">>

Stream(s) == [text |-> s, plain |-> <<>>, plain_is_list |-> FALSE]

Result(s) == [text |-> <<>>, plain |-> <<s>>, plain_is_list |-> FALSE]

MasterCode(source, outputs) ==
    [cell_type |-> "code", source |-> source, outputs |-> outputs, metadata |-> UNLOCKED]

\* the cells a master notebook is made of
CellPalette ==
    { new_markdown_cell(SRC_Q1),
      new_markdown_cell(SRC_Q2_MANUAL),
      new_markdown_cell(SRC_Q1H),
      new_markdown_cell(SRC_MD_TEXT),
      MasterCode(SRC_CODE, <<Result(<<"2">>)>>),
      new_markdown_cell(SRC_MD_SOLUTION),
      MasterCode(SRC_CODE_SOLUTION, <<>>),
      MasterCode(SRC_TEST, <<Result(<<"4">>)>>),
      MasterCode(SRC_HIDDEN_TEST, <<Stream(<<"2">>)>>),
      new_markdown_cell(SRC_ODD_FENCE) }

\* the longest master notebook read with the cells of unusual markup
MaxMarkupCells == 3

\* the cells above and three of unusual markup: a markdown solution cell
\* with an odd fence, a markdown solution cell with a question fence, a code
\* solution cell with a markdown solution line
MarkupPalette ==
    CellPalette \cup
        { new_markdown_cell(SRC_ODD_FENCE_SOLUTION),
          new_markdown_cell(SRC_Q3_SOLUTION),
          MasterCode(SRC_CODE_SOLUTION_MD, <<>>) }

\* the longest master notebook read with the questions q1 and q1H only
MaxNamesCells == 6

\* the cells of two tested questions whose file names can meet
NamesPalette ==
    { new_markdown_cell(SRC_Q1),
      new_markdown_cell(SRC_Q1H),
      new_markdown_cell(SRC_MD_TEXT),
      MasterCode(SRC_CODE_SOLUTION, <<>>),
      MasterCode(SRC_TEST, <<Result(<<"4">>)>>),
      MasterCode(SRC_HIDDEN_TEST, <<Stream(<<"2">>)>>) }

(***************************************************************************)
(* Question Segmenter: gen_ok_cells.  Its locals are the record            *)
(* [ok_cells, question, processed_response, tests, hidden_tests,           *)
(* manual_questions, md_has_prompt]; each branch of the loop body is an    *)
(* operator from the locals and the cell to [raised, seg, tests_dir].      *)
(***************************************************************************)
InitSeg ==
    [ok_cells |-> <<>>, question |-> EmptyDict, processed_response |-> FALSE,
     tests |-> <<>>, hidden_tests |-> <<>>, manual_questions |-> <<>>,
     md_has_prompt |-> FALSE]

Seg ==
    [ok_cells |-> ok_cells, question |-> question,
     processed_response |-> processed_response, tests |-> tests,
     hidden_tests |-> hidden_tests, manual_questions |-> manual_questions,
     md_has_prompt |-> md_has_prompt]

\* `question` as a condition: a dict is true iff it has a key
IsOpen(q) == DOMAIN q # {}

is_manual(q) == Truthy(Get(q, K_manual, PyBool(FALSE)))

\* the state of the Segmenter the locals stand for
SegStateOf(s) ==
    IF ~IsOpen(s.question) THEN "Idle"
    ELSE IF ~s.processed_response THEN "AwaitingResponse"
    ELSE "InResponse"

SegState == SegStateOf(Seg)

gen_close_export_cell == lock(new_markdown_cell(END_QUESTION_COMMENT))

\* gen_question_cell, called on a cell find_question_spec accepts
gen_question_cell(cell, manual) ==
    LET source == IF manual THEN <<BEGIN_QUESTION_COMMENT, <<>>>> \o get_source(cell)
                  ELSE get_source(cell)
        start == find_question_spec(source) - 1
        end == CHOOSE i \in (start + 1)..Len(source) :
                  /\ strip(source[i]) = BLOCK_QUOTE
                  /\ \A j \in (start + 1)..(i - 1) : strip(source[j]) # BLOCK_QUOTE
        rewritten == [k \in 1..Len(source) |->
                        IF k = end THEN COMMENT_CLOSE
                        ELSE IF k = start THEN COMMENT_OPEN
                        ELSE source[k]]
    IN  lock([cell EXCEPT !.source = join(rewritten)])

\* lines 154-168: the cell after the question cell
response_cell(s, cell, tests_dir) ==
    IF \/ is_question_cell_raises(cell)
       \/ is_question_cell(cell)
       \/ is_test_cell(cell)
       \/ (is_solution_cell(cell) /\ ~is_markdown_solution_cell(cell))
    THEN [raised |-> TRUE, seg |-> s, tests_dir |-> tests_dir]
    ELSE LET prompt == ~is_solution_cell(cell) /\ is_manual(s.question)
             placeholder == ~prompt /\ is_markdown_solution_cell(cell) /\ ~s.md_has_prompt
         IN  [raised |-> FALSE,
              seg |-> [s EXCEPT
                         !.md_has_prompt = IF prompt THEN TRUE ELSE @,
                         !.ok_cells = IF placeholder
                                      THEN @ \o <<new_markdown_cell(MD_ANSWER_CELL_TEMPLATE), cell>>
                                      ELSE Append(@, cell),
                         !.processed_response = TRUE],
              tests_dir |-> tests_dir]

\* lines 171-176 with the test cell emitted as well as buffered
test_cell_emitted(s, cell, tests_dir) ==
    LET test == read_test(cell)
    IN  [raised |-> FALSE,
         seg |-> IF test.hidden
                 THEN [s EXCEPT !.hidden_tests = Append(@, test), !.ok_cells = Append(@, cell)]
                 ELSE [s EXCEPT !.tests = Append(@, test), !.ok_cells = Append(@, cell)],
         tests_dir |-> tests_dir]

\* lines 171-176: a test cell of the open question
test_cell(s, cell, tests_dir) ==
    LET test == read_test(cell)
    IN  [raised |-> FALSE,
         seg |-> IF test.hidden
                 THEN [s EXCEPT !.hidden_tests = Append(@, test)]
                 ELSE [s EXCEPT !.tests = Append(@, test)],
         tests_dir |-> tests_dir]

\* lines 179-182: a solution cell of the open question
solution_cell(s, cell, tests_dir) ==
    [raised |-> FALSE,
     seg |-> [s EXCEPT !.ok_cells =
                IF is_markdown_solution_cell(cell) /\ ~s.md_has_prompt
                THEN @ \o <<new_markdown_cell(MD_ANSWER_CELL_TEMPLATE), cell>>
                ELSE Append(@, cell)],
     tests_dir |-> tests_dir]

\* lines 187-190 and 216-219 with the cell of the hidden tier emitted too
flush_tests_hidden_cell(s, tests_dir) ==
    LET pub == IF s.tests # <<>>
               THEN gen_test_cell(s.question, s.tests, tests_dir, FALSE)
               ELSE [cell |-> <<>>, tests_dir |-> tests_dir]
        oks == IF s.tests # <<>> THEN Append(s.ok_cells, pub.cell) ELSE s.ok_cells
        hid == gen_test_cell(s.question, s.hidden_tests, pub.tests_dir, TRUE)
    IN  IF s.hidden_tests # <<>>
        THEN [raised |-> FALSE, seg |-> [s EXCEPT !.ok_cells = Append(oks, hid.cell)],
              tests_dir |-> hid.tests_dir]
        ELSE [raised |-> FALSE, seg |-> [s EXCEPT !.ok_cells = oks], tests_dir |-> pub.tests_dir]

\* lines 187-190 and 216-219: compile the buffered tests of question q
flush_tests(s, tests_dir) ==
    LET pub == IF s.tests # <<>>
               THEN gen_test_cell(s.question, s.tests, tests_dir, FALSE)
               ELSE [cell |-> <<>>, tests_dir |-> tests_dir]
        oks == IF s.tests # <<>> THEN Append(s.ok_cells, pub.cell) ELSE s.ok_cells
        dir == IF s.hidden_tests # <<>>
               THEN gen_test_cell(s.question, s.hidden_tests, pub.tests_dir, TRUE).tests_dir
               ELSE pub.tests_dir
    IN  [raised |-> FALSE, seg |-> [s EXCEPT !.ok_cells = oks], tests_dir |-> dir]

\* the close of lines 186-197 with md_has_prompt left out of the reset
close_question_keep_prompt(s, tests_dir) ==
    LET flushed == flush_tests(s, tests_dir)
        oks == IF is_manual(s.question)
               THEN Append(flushed.seg.ok_cells, gen_close_export_cell)
               ELSE flushed.seg.ok_cells
    IN  [raised |-> FALSE,
         seg |-> [s EXCEPT !.ok_cells = oks, !.question = EmptyDict,
                           !.processed_response = FALSE, !.tests = <<>>,
                           !.hidden_tests = <<>>],
         tests_dir |-> flushed.tests_dir]

\* the close of lines 186-197 without the reset of line 197
close_question_no_reset(s, tests_dir) ==
    LET flushed == flush_tests(s, tests_dir)
    IN  [flushed EXCEPT !.seg.ok_cells =
            IF is_manual(s.question) THEN Append(@, gen_close_export_cell) ELSE @]

\* lines 186-197: the question is over
close_question(s, tests_dir) ==
    LET flushed == flush_tests(s, tests_dir)
        oks == IF is_manual(s.question)
               THEN Append(flushed.seg.ok_cells, gen_close_export_cell)
               ELSE flushed.seg.ok_cells
    IN  [raised |-> FALSE,
         seg |-> [s EXCEPT !.ok_cells = oks, !.question = EmptyDict,
                           !.processed_response = FALSE, !.tests = <<>>,
                           !.hidden_tests = <<>>, !.md_has_prompt = FALSE],
         tests_dir |-> flushed.tests_dir]

\* lines 199-214 with the assertion of line 213 left out
dispatch_no_assert(s, cell, tests_dir) ==
    IF is_question_cell_raises(cell)
    THEN [raised |-> TRUE, seg |-> s, tests_dir |-> tests_dir]
    ELSE IF is_question_cell(cell)
    THEN IF read_question_metadata_raises(cell)
         THEN [raised |-> TRUE, seg |-> s, tests_dir |-> tests_dir]
         ELSE LET q == read_question_metadata(cell)
              IN  [raised |-> FALSE,
                   seg |-> [s EXCEPT
                              !.question = q,
                              !.manual_questions =
                                  IF is_manual(q) THEN Append(@, q[K_name].v) ELSE @,
                              !.ok_cells = Append(@, gen_question_cell(cell, is_manual(q)))],
                   tests_dir |-> tests_dir]
    ELSE IF is_solution_cell(cell)
    THEN [raised |-> FALSE,
          seg |-> [s EXCEPT !.ok_cells =
                     IF is_markdown_solution_cell(cell)
                     THEN @ \o <<new_markdown_cell(MD_ANSWER_CELL_TEMPLATE), cell>>
                     ELSE Append(@, cell)],
          tests_dir |-> tests_dir]
    ELSE [raised |-> FALSE, seg |-> [s EXCEPT !.ok_cells = Append(@, cell)],
          tests_dir |-> tests_dir]

\* lines 199-214: the cell is dispatched with no question open
dispatch(s, cell, tests_dir) ==
    IF is_question_cell_raises(cell)
    THEN [raised |-> TRUE, seg |-> s, tests_dir |-> tests_dir]
    ELSE IF is_question_cell(cell)
    THEN IF read_question_metadata_raises(cell)
         THEN [raised |-> TRUE, seg |-> s, tests_dir |-> tests_dir]
         ELSE LET q == read_question_metadata(cell)
              IN  [raised |-> FALSE,
                   seg |-> [s EXCEPT
                              !.question = q,
                              !.manual_questions =
                                  IF is_manual(q) THEN Append(@, q[K_name].v) ELSE @,
                              !.ok_cells = Append(@, gen_question_cell(cell, is_manual(q)))],
                   tests_dir |-> tests_dir]
    ELSE IF is_solution_cell(cell)
    THEN [raised |-> FALSE,
          seg |-> [s EXCEPT !.ok_cells =
                     IF is_markdown_solution_cell(cell)
                     THEN @ \o <<new_markdown_cell(MD_ANSWER_CELL_TEMPLATE), cell>>
                     ELSE Append(@, cell)],
          tests_dir |-> tests_dir]
    ELSE IF is_test_cell(cell)
    THEN [raised |-> TRUE, seg |-> s, tests_dir |-> tests_dir]
    ELSE [raised |-> FALSE, seg |-> [s EXCEPT !.ok_cells = Append(@, cell)],
          tests_dir |-> tests_dir]

\* lines 184-214: the else branch; a raise leaves the files of the close
other_cell(s, cell, tests_dir) ==
    LET closed == IF IsOpen(s.question) /\ s.processed_response
                  THEN close_question(s, tests_dir)
                  ELSE [raised |-> FALSE, seg |-> s, tests_dir |-> tests_dir]
    IN  dispatch(closed.seg, cell, closed.tests_dir)

\* lines 216-221: after the loop
end_of_stream(s, tests_dir) == flush_tests(s, tests_dir)

(***************************************************************************)
(* The loop of gen_ok_cells, one action per branch of its body.            *)
(***************************************************************************)
CanScan(n) == pc = "scan" /\ Len(cells) < n

SetSeg(s) ==
    /\ ok_cells' = s.ok_cells
    /\ question' = s.question
    /\ processed_response' = s.processed_response
    /\ tests' = s.tests
    /\ hidden_tests' = s.hidden_tests
    /\ manual_questions' = s.manual_questions
    /\ md_has_prompt' = s.md_has_prompt

\* the cell is read and the branch has run with result r; an exception
\* leaves gen_views, its locals are lost and the files written stay
Scanned(cell, r) ==
    /\ cells' = Append(cells, cell)
    /\ seg_before' = SegState
    /\ IF r.raised
       THEN pc' = "error" /\ SetSeg(InitSeg)
       ELSE pc' = pc /\ SetSeg(r.seg)
    /\ autograder_dir' = [autograder_dir EXCEPT !.tests = r.tests_dir]
    /\ UNCHANGED <<student_dir, args, unit_vars>>

\* the branches of the loop body, for a master notebook of at most n cells
\* drawn from the palette P
ResponseCellFrom(P, n) ==
    \E cell \in P :
        /\ CanScan(n)
        /\ IsOpen(question) /\ ~processed_response
        /\ Scanned(cell, response_cell(Seg, cell, autograder_dir.tests))
        /\ UNCHANGED scanned

TestCellFrom(P, n) ==
    \E cell \in P :
        /\ CanScan(n)
        /\ IsOpen(question) /\ processed_response /\ is_test_cell(cell)
        /\ Scanned(cell, test_cell(Seg, cell, autograder_dir.tests))
        /\ scanned' = Append(scanned, [name |-> question[K_name].v, test |-> read_test(cell)])

SolutionCellFrom(P, n) ==
    \E cell \in P :
        /\ CanScan(n)
        /\ IsOpen(question) /\ processed_response
        /\ ~is_test_cell(cell) /\ is_solution_cell(cell)
        /\ Scanned(cell, solution_cell(Seg, cell, autograder_dir.tests))
        /\ UNCHANGED scanned

OtherCellFrom(P, n) ==
    \E cell \in P :
        /\ CanScan(n)
        /\ ~(IsOpen(question) /\ ~processed_response)
        /\ ~(IsOpen(question) /\ processed_response /\ is_test_cell(cell))
        /\ ~(IsOpen(question) /\ processed_response /\ is_solution_cell(cell))
        /\ Scanned(cell, other_cell(Seg, cell, autograder_dir.tests))
        /\ UNCHANGED scanned

ResponseCell == ResponseCellFrom(CellPalette, MaxCells)

TestCell == TestCellFrom(CellPalette, MaxCells)

SolutionCell == SolutionCellFrom(CellPalette, MaxCells)

OtherCell == OtherCellFrom(CellPalette, MaxCells)

EndOfStream ==
    /\ pc = "scan"
    /\ pc' = "returned"
    /\ LET r == end_of_stream(Seg, autograder_dir.tests)
       IN  /\ SetSeg(r.seg)
           /\ autograder_dir' = [autograder_dir EXCEPT !.tests = r.tests_dir]
    /\ UNCHANGED <<cells, seg_before, scanned, student_dir, args, unit_vars>>

(***************************************************************************)
(* View Assembler: convert_to_ok after gen_ok_cells, and gen_views.  The   *)
(* notebook is named NB_NAME, no auxiliary file is copied, and the export  *)
(* cells are generated without instruction text and with filtering.        *)
(***************************************************************************)
gen_init_cell == lock(new_code_cell(INIT_CELL_SOURCE))

gen_check_all_cell ==
    <<lock(new_markdown_cell(CHECK_ALL_INSTRUCTIONS)), lock(new_code_cell(CHECK_ALL_SOURCE))>>

gen_export_cells ==
    <<lock(new_markdown_cell(EXPORT_INSTRUCTIONS)),
      lock(new_code_cell(join(<<EXPORT_COMMENT, EXPORT_OPEN \o NB_NAME \o CHECK_CLOSE>>))),
      new_markdown_cell(EXPORT_BUFFER)>>

\* remove_output that clears the outputs of the locked cells only
remove_output_locked(nb) ==
    [k \in 1..Len(nb) |-> IF nb[k].metadata.editable THEN nb[k] ELSE [nb[k] EXCEPT !.outputs = <<>>]]

remove_output(nb) == [k \in 1..Len(nb) |-> [nb[k] EXCEPT !.outputs = <<>>]]

\* lines 76-87: the cells of the notebook convert_to_ok writes
assemble(oks, a) ==
    remove_output(
        (IF ~a.no_init_cell THEN <<gen_init_cell>> ELSE <<>>)
        \o oks
        \o (IF ~a.no_check_all THEN gen_check_all_cell ELSE <<>>)
        \o (IF ~a.no_export_cell THEN gen_export_cells ELSE <<>>))

\* the indices strip_solutions collects, ascending
deletion_indices(nb) ==
    LET F[k \in 0..Len(nb)] ==
            IF k = 0 THEN <<>>
            ELSE IF is_solution_cell(nb[k]) THEN Append(F[k - 1], k) ELSE F[k - 1]
    IN  F[Len(nb)]

\* for i in indices: del cells[i]
RECURSIVE delete_each(_, _)
delete_each(nb, indices) ==
    IF indices = <<>> THEN nb
    ELSE delete_each(DelAt(nb, Head(indices)), Tail(indices))

\* strip_solutions without deletion_indices.reverse()
strip_solutions_forward(nb) == delete_each(nb, deletion_indices(nb))

\* the cells strip_solutions writes for a notebook with cells nb
strip_solutions(nb) == delete_each(nb, Reverse(deletion_indices(nb)))

\* f.suffix of a file name: from its last dot, when that is not its first character
suffix(name) ==
    IF \E i \in 2..Len(name) : name[i] = "."
    THEN LET i == CHOOSE i \in 2..Len(name) :
                     name[i] = "." /\ \A j \in (i + 1)..Len(name) : name[j] # "."
         IN  SubSeq(name, i, Len(name))
    ELSE <<>>

\* remove_hidden_tests deciding by the H of the file name, not by the flag
remove_hidden_tests_by_name(test_dir) ==
    { f \in test_dir : ~endswith(f.path, HIDDEN_SUFFIX \o PY_SUFFIX) }

\* the directory remove_hidden_tests leaves
remove_hidden_tests(test_dir) ==
    { f \in test_dir : (f.path = INIT_PY \/ suffix(f.path) # PY_SUFFIX) \/ ~f.test.hidden }

ArgsChoices ==
    [no_init_cell : BOOLEAN, no_check_all : BOOLEAN, no_export_cell : BOOLEAN]

\* gen_views after gen_ok_cells returned: convert_to_ok assembles and writes
\* the autograder notebook (lines 76-91), then the student directory is made
\* a copy of the autograder directory with the notebook stripped of its
\* solutions and the hidden test files removed (lines 470-475)
GenViews ==
    \E a \in ArgsChoices :
        /\ pc = "returned"
        /\ pc' = "done"
        /\ args' = a
        /\ LET nb == assemble(ok_cells, a)
           IN  /\ autograder_dir' = [autograder_dir EXCEPT !.has_nb = TRUE, !.nb = nb]
               /\ student_dir' = [exists |-> TRUE,
                                  has_nb |-> TRUE,
                                  nb |-> strip_solutions(nb),
                                  tests |-> remove_hidden_tests(autograder_dir.tests)]
        /\ UNCHANGED <<cells, seg_vars, seg_before, scanned, unit_vars>>

(***************************************************************************)
(* gen_views on a fresh result directory.                                  *)
(***************************************************************************)
NoArgs == [no_init_cell |-> FALSE, no_check_all |-> FALSE, no_export_cell |-> FALSE]

InitMain ==
    /\ cells = <<>>
    /\ pc = "scan"
    /\ ok_cells = <<>>
    /\ question = EmptyDict
    /\ processed_response = FALSE
    /\ tests = <<>>
    /\ hidden_tests = <<>>
    /\ manual_questions = <<>>
    /\ md_has_prompt = FALSE
    /\ autograder_dir = [has_nb |-> FALSE, nb |-> <<>>, tests |-> {}]
    /\ student_dir = [exists |-> FALSE, has_nb |-> FALSE, nb |-> <<>>, tests |-> {}]
    /\ args = NoArgs
    /\ seg_before = "Idle"
    /\ scanned = <<>>

Init == InitMain /\ u_pc = "idle" /\ u_in = <<>> /\ u_out = <<>>

Next ==
    \/ ResponseCell
    \/ TestCell
    \/ SolutionCell
    \/ OtherCell
    \/ EndOfStream
    \/ GenViews

Spec == Init /\ [][Next]_vars

\* gen_views on the master notebooks with cells of unusual markup
NextMarkup ==
    \/ ResponseCellFrom(MarkupPalette, MaxMarkupCells)
    \/ TestCellFrom(MarkupPalette, MaxMarkupCells)
    \/ SolutionCellFrom(MarkupPalette, MaxMarkupCells)
    \/ OtherCellFrom(MarkupPalette, MaxMarkupCells)
    \/ EndOfStream
    \/ GenViews

SpecMarkup == Init /\ [][NextMarkup]_vars

\* gen_views on the master notebooks of the questions q1 and q1H
NextNames ==
    \/ ResponseCellFrom(NamesPalette, MaxNamesCells)
    \/ TestCellFrom(NamesPalette, MaxNamesCells)
    \/ SolutionCellFrom(NamesPalette, MaxNamesCells)
    \/ OtherCellFrom(NamesPalette, MaxNamesCells)
    \/ EndOfStream
    \/ GenViews

SpecNames == Init /\ [][NextNames]_vars

(***************************************************************************)
(* The pure functions, each called once on an argument drawn from a        *)
(* bounded set: u_in is the argument, u_out the result.                    *)
(***************************************************************************)
\* bounds of the arguments
MaxSourceLines == 2

MaxNameLen == 3

MaxPoints == 2

MaxInputLen == 3

LINE_MD_SOLUTION == <<"*","*","S","o","l","u","t","i","o","n",":","*","*"," ","2">>
LINE_STRONG_SOLUTION ==
    <<"<","s","t","r","o","n","g",">","S","O","L","U","T","I","O","N","<","/","s","t","r","o",
      "n","g",">">>
LINE_SOLUTION == <<"#","#"," ","s","o","l","u","t","i","o","n"," ","#","#">>
LINE_TEST == <<"#","#"," ","T","e","s","t"," ","#","#">>
LINE_TEXT == <<"t","e","x","t">>
LINE_POINTS == <<"p","o","i","n","t","s",":"," ","2">>
NAME_KEY == <<"n","a","m","e",":"," ">>

\* the sequences over alphabet of length 0..n
SeqsUpTo(alphabet, n) == UNION { [1..m -> alphabet] : m \in 0..n }

UnitCall(result) ==
    /\ u_pc = "call"
    /\ u_pc' = "ret"
    /\ u_out' = result
    /\ UNCHANGED <<u_in, main_vars>>

(* Cell Classifier *)
LinePalette ==
    { LINE_MD_SOLUTION, LINE_STRONG_SOLUTION, LINE_SOLUTION, LINE_TEST, LINE_TEXT,
      BLOCK_QUOTE, BEGIN_QUESTION }

ClassifyInputs ==
    { [cell_type |-> t, source |-> join(ls), outputs |-> <<>>, metadata |-> UNLOCKED] :
        t \in {"markdown", "code", "raw"},
        ls \in SeqsUpTo(LinePalette, MaxSourceLines) \ {<<>>} }

InitClassify == InitMain /\ u_pc = "call" /\ u_in \in ClassifyInputs /\ u_out = <<>>

Classify ==
    UnitCall([question_raised |-> is_question_cell_raises(u_in),
              question |-> ~is_question_cell_raises(u_in) /\ is_question_cell(u_in),
              solution |-> is_solution_cell(u_in),
              markdown_solution |-> is_markdown_solution_cell(u_in),
              test |-> is_test_cell(u_in)])

NextClassify == Classify

SpecClassify == InitClassify /\ [][NextClassify]_vars

(* Metadata Parser *)
NameAlphabet == {"q", "1", "-", "_", " "}

QuestionCellNamed(name) ==
    new_markdown_cell(join(<<BLOCK_QUOTE, BEGIN_QUESTION, NAME_KEY \o name, LINE_POINTS, BLOCK_QUOTE>>))

QuestionCellUnnamed ==
    new_markdown_cell(join(<<BLOCK_QUOTE, BEGIN_QUESTION, LINE_POINTS, BLOCK_QUOTE>>))

MetadataInputs ==
    { QuestionCellNamed(n) : n \in SeqsUpTo(NameAlphabet, MaxNameLen) } \cup {QuestionCellUnnamed}

InitMetadata == InitMain /\ u_pc = "call" /\ u_in \in MetadataInputs /\ u_out = <<>>

ReadQuestionMetadata ==
    UnitCall([raised |-> read_question_metadata_raises(u_in),
              value |-> IF read_question_metadata_raises(u_in) THEN EmptyDict
                        ELSE read_question_metadata(u_in)])

NextMetadata == ReadQuestionMetadata

SpecMetadata == InitMetadata /\ [][NextMetadata]_vars

(* Test Compiler: the point value *)
PointKeys == {K_points, K_public_points, K_private_points}

\* a question named q with the point keys of present, key k holding value val[k]
QuestionWith(present, val) ==
    [k \in present \cup {K_name} |-> IF k = K_name THEN PyStr(<<"q">>) ELSE PyInt(val[k])]

PointsInputs ==
    { [question |-> QuestionWith(present, val), hidden |-> h] :
        present \in SUBSET PointKeys, val \in [PointKeys -> 0..MaxPoints], h \in BOOLEAN }

InitPoints == InitMain /\ u_pc = "call" /\ u_in \in PointsInputs /\ u_out = <<>>

GenTestCell ==
    UnitCall(gen_test_cell(u_in.question, <<Test(<<"1">>, <<"1">>, u_in.hidden)>>, {}, u_in.hidden))

NextPoints == GenTestCell

SpecPoints == InitPoints /\ [][NextPoints]_vars

(* Test Compiler: the doctest rendering *)
EXAMPLE_INPUT == <<"x"," ","="," ","1","\n","y"," ","="," ","2">>
EXAMPLE_OUTPUT == <<"3">>
EXAMPLE_LINE_1_MARKED == <<">",">",">"," ","x"," ","="," ","1",";">>
EXAMPLE_LINE_1 == <<">",">",">"," ","x"," ","="," ","1">>
EXAMPLE_LINE_2 == <<">",">",">"," ","y"," ","="," ","2">>

CaseAlphabet == {"x", " ", "\\", "\n"}

ExampleTest == Test(EXAMPLE_INPUT, EXAMPLE_OUTPUT, FALSE)

CaseInputs ==
    { Test(s, EXAMPLE_OUTPUT, FALSE) : s \in SeqsUpTo(CaseAlphabet, MaxInputLen) } \cup {ExampleTest}

InitCase == InitMain /\ u_pc = "call" /\ u_in \in CaseInputs /\ u_out = <<>>

GenCase == UnitCall(gen_case(u_in))

NextCase == GenCase

SpecCase == InitCase /\ [][NextCase]_vars

(***************************************************************************)
(* Properties.                                                             *)
(***************************************************************************)
\* the names of the questions the scan opened, in order
QuestionNames ==
    LET qs == SelectSeq(cells, LAMBDA c : ~is_question_cell_raises(c) /\ is_question_cell(c))
    IN  [k \in 1..Len(qs) |-> read_question_metadata(qs[k])[K_name].v]

\* the file name of question name n in tier h
TierPath(n, h) == IF h THEN n \o HIDDEN_SUFFIX \o PY_SUFFIX ELSE n \o PY_SUFFIX

\* the tests scanned for question name n and tier h, in scan order
ScannedFor(n, h) == SelectSeq(scanned, LAMBDA e : e.name = n /\ e.test.hidden = h)

LastCell == cells[Len(cells)]

\* C1: View subset law.  When gen_views is done, the student notebook is
\* exactly the autograder notebook with every cell that is_solution_cell
\* marks deleted: the other cells unchanged and in order, none added.
C1_ViewSubsetLaw ==
    pc = "done" =>
        student_dir.nb = SelectSeq(autograder_dir.nb, LAMBDA c : ~is_solution_cell(c))

\* a finished run whose autograder notebook holds two solution cells or more
C1_Witness ==
    /\ pc = "done"
    /\ Len(deletion_indices(autograder_dir.nb)) >= 2
    /\ Len(student_dir.nb) >= 1

\* C2: Hidden-tier exclusivity.  When gen_views is done, no test file of
\* the student directory has hidden = True, and every test file of the
\* autograder tests directory with hidden = False is in the student tests
\* directory.
C2_HiddenTierExclusivity ==
    pc = "done" =>
        /\ \A f \in student_dir.tests : ~f.test.hidden
        /\ \A f \in autograder_dir.tests : ~f.test.hidden => f \in student_dir.tests

\* a finished run with a hidden file and with a public file whose name ends in H.py
C2_Witness ==
    /\ pc = "done"
    /\ \E f \in autograder_dir.tests : f.test.hidden
    /\ \E f \in autograder_dir.tests :
          ~f.test.hidden /\ endswith(f.path, HIDDEN_SUFFIX \o PY_SUFFIX)

\* an emitted question cell: gen_question_cell rewrote its opening fence
IsEmittedQuestionCell(c) ==
    /\ c.cell_type = "markdown"
    /\ \E i \in 1..(Len(get_source(c)) - 1) :
          /\ get_source(c)[i] = COMMENT_OPEN
          /\ StripChars(get_source(c)[i + 1], {" "}) = BEGIN_QUESTION

\* an emitted cell of a manual question: gen_question_cell put the marker first
IsEmittedManualQuestionCell(c) ==
    IsEmittedQuestionCell(c) /\ get_source(c)[1] = BEGIN_QUESTION_COMMENT

\* the end markers after emitted cell k and before the next question cell
EndMarkersAfter(k) ==
    LET stop == IF \E j \in (k + 1)..Len(ok_cells) : IsEmittedQuestionCell(ok_cells[j])
                THEN CHOOSE j \in (k + 1)..Len(ok_cells) :
                        /\ IsEmittedQuestionCell(ok_cells[j])
                        /\ \A i \in (k + 1)..(j - 1) : ~IsEmittedQuestionCell(ok_cells[i])
                ELSE Len(ok_cells) + 1
    IN  Cardinality({ j \in (k + 1)..(stop - 1) : ok_cells[j] = gen_close_export_cell })

\* C3: End of stream closes the open question as a close inside the stream
\* does: in the cells gen_ok_cells returns, every manual question cell is
\* followed by exactly one end-of-question marker before the next question
\* cell or the end, also when the manual question is the last one.
C3_ManualQuestionHasEndMarker ==
    pc = "returned" =>
        \A k \in 1..Len(ok_cells) :
            IsEmittedManualQuestionCell(ok_cells[k]) => EndMarkersAfter(k) = 1

C5_PointsResolutionTable ==
    u_pc = "ret" =>
        LET q == u_in.question
            has_public == K_public_points \in DOMAIN q
            has_private == K_private_points \in DOMAIN q
        IN  \A f \in u_out.tests_dir :
                /\ (has_public /\ has_private) =>
                      f.test.points = IF u_in.hidden THEN q[K_private_points] ELSE q[K_public_points]
                /\ (has_public /\ ~has_private) => f.test.points = q[K_public_points]
                /\ (~has_public /\ has_private /\ u_in.hidden) => f.test.points = q[K_private_points]
                /\ (~has_public /\ has_private /\ ~u_in.hidden) => f.test.points = PyInt(0)
                /\ (~has_public /\ ~has_private /\ K_points \in DOMAIN q) => f.test.points = q[K_points]
                /\ (~has_public /\ ~has_private /\ K_points \notin DOMAIN q) => f.test.points = PyInt(1)

\* the public file of a question with private_points and points and no public_points
C5_Witness ==
    /\ u_pc = "ret"
    /\ ~u_in.hidden
    /\ DOMAIN u_in.question = {K_name, K_private_points, K_points}
    /\ u_in.question[K_points] # PyInt(0)
    /\ Cardinality(u_out.tests_dir) = 1

\* C6 as amended: the test with input "x = 1\ny = 2" and output "3" is
\* rendered as the three lines ">>> x = 1;", ">>> y = 2", "3": the first
\* line carries the suppression marker, the other two do not.
C6_TranscriptExampleMarked ==
    (u_pc = "ret" /\ u_in = ExampleTest) =>
        split(u_out.code) = <<EXAMPLE_LINE_1_MARKED, EXAMPLE_LINE_2, EXAMPLE_OUTPUT>>

\* C6 as stated: the same test is rendered as ">>> x = 1", ">>> y = 2",
\* "3", no line carrying the suppression marker.
C6_TranscriptExampleUnmarked ==
    (u_pc = "ret" /\ u_in = ExampleTest) =>
        split(u_out.code) = <<EXAMPLE_LINE_1, EXAMPLE_LINE_2, EXAMPLE_OUTPUT>>

\* gen_case has rendered the example
C6_Witness == u_pc = "ret" /\ u_in = ExampleTest /\ Len(split(u_out.code)) = 3

\* C7: Abort without partial output.  When the transformation has failed,
\* no test file and no notebook is in the autograder or student directory.
C7_AbortLeavesNothing ==
    pc = "error" =>
        /\ autograder_dir.tests = {}
        /\ ~autograder_dir.has_nb
        /\ student_dir.tests = {}
        /\ ~student_dir.has_nb

\* C8: A test cell outside a question is an error.  A test cell read in
\* Idle or AwaitingResponse aborts the scan; one read in InResponse is
\* buffered and not emitted; no emitted cell and no cell of a written
\* notebook is a test cell.
C8_TestCellOutsideQuestion ==
    /\ \A k \in 1..Len(ok_cells) : ~is_test_cell(ok_cells[k])
    /\ \A k \in 1..Len(autograder_dir.nb) : ~is_test_cell(autograder_dir.nb[k])
    /\ (cells # <<>> /\ is_test_cell(LastCell) /\ seg_before # "InResponse") => pc = "error"
    /\ (cells # <<>> /\ is_test_cell(LastCell) /\ seg_before = "InResponse") => pc # "error"
    /\ (cells # <<>> /\ is_test_cell(LastCell) /\ pc = "scan") =>
          LET bucket == IF read_test(LastCell).hidden THEN hidden_tests ELSE tests
          IN  bucket # <<>> /\ bucket[Len(bucket)] = read_test(LastCell)

\* a test cell read in Idle after a question was opened and closed has aborted the scan
C8_Witness ==
    /\ pc = "error"
    /\ Len(cells) >= 4
    /\ is_test_cell(LastCell)
    /\ seg_before = "Idle"
    /\ \E k \in 1..(Len(cells) - 1) : is_question_cell(cells[k])
    /\ ~is_question_cell(cells[Len(cells) - 1])

\* the identifier pattern ^[A-Za-z][A-Za-z0-9_]*$
IsIdentifier(s) ==
    /\ s # <<>>
    /\ IsLetter(s[1])
    /\ \A k \in 2..Len(s) : IsLetter(s[k]) \/ IsDigit(s[k]) \/ s[k] = "_"

\* C9: Question name validation.  read_question_metadata returns only if
\* the metadata has a name, a str, that matches the identifier pattern in
\* full.
C9_NameMatchesInFull ==
    (u_pc = "ret" /\ ~u_out.raised) =>
        /\ K_name \in DOMAIN u_out.value
        /\ u_out.value[K_name].t = "str"
        /\ IsIdentifier(u_out.value[K_name].v)

\* C10: is_markdown_solution_cell is is_solution_cell restricted to
\* markdown cells: true iff the cell is markdown and is_solution_cell is
\* true, so false for every code cell.
C10_MarkdownSolutionRefinement ==
    u_pc = "ret" =>
        (u_out.markdown_solution <=> (u_in.cell_type = "markdown" /\ u_out.solution))


\* the number of fence-token lines of a cell
FenceCount(c) == Len(block_quotes(get_source(c)))

\* C11: Fence balance.  A cell the Segmenter opened a question with has an
\* even number of fence-token lines, and whenever the cell scanned last is
\* a markdown cell with an odd number of fence-token lines the scan has
\* aborted, whatever state the Segmenter was in.
C11_FenceBalance ==
    /\ (pc = "scan" /\ cells # <<>> /\ SegState = "AwaitingResponse") =>
          FenceCount(LastCell) % 2 = 0
    /\ (cells # <<>> /\ LastCell.cell_type = "markdown" /\ FenceCount(LastCell) % 2 = 1) =>
          pc = "error"

\* what the claim forbids after a question cell: a question cell, a test
\* cell, a solution cell that is not a markdown cell
IsForbiddenResponse(c) ==
    \/ is_question_cell(c)
    \/ is_test_cell(c)
    \/ (c.cell_type # "markdown" /\ is_solution_cell(c))

\* C12: AwaitingResponse precondition.  A well-formed cell read right after
\* a question cell aborts the scan if it is a question cell, a test cell or
\* a code solution cell; otherwise it is emitted last and the Segmenter is
\* InResponse.
C12_AwaitingResponsePrecondition ==
    (/\ pc \in {"scan", "error"}
     /\ cells # <<>>
     /\ seg_before = "AwaitingResponse"
     /\ ~is_question_cell_raises(LastCell)) =>
        IF IsForbiddenResponse(LastCell)
        THEN pc = "error"
        ELSE /\ pc = "scan"
             /\ SegState = "InResponse"
             /\ ok_cells # <<>>
             /\ ok_cells[Len(ok_cells)] = LastCell

\* the answer placeholder cell
Placeholder == new_markdown_cell(MD_ANSWER_CELL_TEMPLATE)

\* the cells emitted for the open question after its question cell
OpenBlock ==
    LET k == CHOOSE i \in 1..Len(ok_cells) :
                /\ IsEmittedQuestionCell(ok_cells[i])
                /\ \A j \in (i + 1)..Len(ok_cells) : ~IsEmittedQuestionCell(ok_cells[j])
    IN  SubSeq(ok_cells, k + 1, Len(ok_cells))

\* C14: Answer-placeholder synthesis.  While a question is open, the cells
\* emitted for it hold at most one placeholder, and none when its first
\* response cell was a visible prompt (not a solution cell).
C14_PlaceholderSynthesis ==
    (pc = "scan" /\ SegState # "Idle") =>
        LET block == OpenBlock
            placeholders == Cardinality({ i \in 1..Len(block) : block[i] = Placeholder })
        IN  /\ placeholders <= 1
            /\ (block # <<>> /\ block[1] # Placeholder /\ ~is_solution_cell(block[1])) =>
                  placeholders = 0

\* a grading cell: grader.check("...")
IsGradingCell(c) ==
    c.cell_type = "code" /\ startswith(c.source, CHECK_OPEN) /\ endswith(c.source, CHECK_CLOSE)

\* the grading cell that names n
GradingCell(n) == lock(new_code_cell(CHECK_OPEN \o n \o CHECK_CLOSE))

\* what a step of the scan emits: the cells ok_cells' has after ok_cells
Emitted == SubSeq(ok_cells', Len(ok_cells) + 1, Len(ok_cells'))

\* a step of the scan that closes the open question: a cell that ends the
\* response, or the end of the stream
ClosesQuestion ==
    /\ pc = "scan" /\ SegState = "InResponse"
    /\ \/ pc' = "returned"
       \/ pc' = "scan" /\ SegStateOf([question |-> question',
                                      processed_response |-> processed_response']) # "InResponse"
       \/ pc' = "scan" /\ question' # question

\* C13: Hidden tests are invisible in the document.  A step of the scan
\* that closes a question whose public bucket is non-empty emits exactly
\* one grading cell, first (after the cells of the question, before the
\* cell that triggered the close), naming the question; every other step,
\* also the close of a question with hidden tests only, emits none.
C13_GradingCellPerPublicBucket ==
    [][(pc = "scan" /\ pc' \in {"scan", "returned"}) =>
          /\ Len(ok_cells') >= Len(ok_cells)
          /\ SubSeq(ok_cells', 1, Len(ok_cells)) = ok_cells
          /\ IF ClosesQuestion /\ tests # <<>>
             THEN /\ Emitted # <<>>
                  /\ Emitted[1] = GradingCell(question[K_name].v)
                  /\ \A k \in 2..Len(Emitted) : ~IsGradingCell(Emitted[k])
             ELSE \A k \in 1..Len(Emitted) : ~IsGradingCell(Emitted[k])]_vars

\* a question with a public and a hidden test was closed: one grading cell
\* is emitted and two files are written
C13_Witness ==
    /\ pc = "returned"
    /\ \E i, j \in 1..Len(scanned) : scanned[i].test.hidden /\ ~scanned[j].test.hidden
    /\ Cardinality(autograder_dir.tests) = 2
    /\ Cardinality({ k \in 1..Len(ok_cells) : IsGradingCell(ok_cells[k]) }) = 1
    /\ IsGradingCell(ok_cells[Len(ok_cells)])

\* the lines of the input gen_case was called on, and of the transcript
InputLines == split(u_in.input)

TranscriptLines == split(u_out.code)

\* transcript line i is input line i behind a four-character prompt, with
\* or without the suppression marker
IsMarkedLine(i) ==
    /\ Len(TranscriptLines[i]) = Len(InputLines[i]) + 5
    /\ SubSeq(TranscriptLines[i], 5, Len(InputLines[i]) + 4) = InputLines[i]
    /\ TranscriptLines[i][Len(TranscriptLines[i])] = ";"

IsUnmarkedLine(i) ==
    /\ Len(TranscriptLines[i]) = Len(InputLines[i]) + 4
    /\ SubSeq(TranscriptLines[i], 5, Len(InputLines[i]) + 4) = InputLines[i]

\* the transcript is the input lines, each marked or not, then the output
IsTranscriptShape ==
    /\ Len(TranscriptLines) = Len(InputLines) + 1
    /\ TranscriptLines[Len(TranscriptLines)] = u_in.output
    /\ \A i \in 1..Len(InputLines) : IsMarkedLine(i) \/ IsUnmarkedLine(i)
    /\ ~IsMarkedLine(Len(InputLines))

\* C15 as amended: line i carries the suppression marker iff line i+1 is a
\* statement line, input line i is not blank (the rendered line, prompt
\* included, is more than 3 characters long once stripped) and line i does
\* not end in a backslash; the last input line carries none and the
\* expected output is the final line.
C15_SuppressionRuleNonBlank ==
    u_pc = "ret" =>
        /\ IsTranscriptShape
        /\ \A i \in 1..Len(InputLines) :
              IsMarkedLine(i) <=>
                  /\ i < Len(InputLines)
                  /\ startswith(TranscriptLines[i + 1], STATEMENT_MARK)
                  /\ \E k \in 1..Len(InputLines[i]) : ~IsSpace(InputLines[i][k])
                  /\ ~endswith(InputLines[i], <<"\\">>)

\* C15 as stated: line i carries the suppression marker iff line i+1 is a
\* statement line, line i has more than 3 characters after its marker and
\* line i does not end in a backslash; the last input line carries none
\* and the expected output is the final line.
C15_SuppressionRuleLongLines ==
    u_pc = "ret" =>
        /\ IsTranscriptShape
        /\ \A i \in 1..Len(InputLines) :
              IsMarkedLine(i) <=>
                  /\ i < Len(InputLines)
                  /\ startswith(TranscriptLines[i + 1], STATEMENT_MARK)
                  /\ Len(InputLines[i]) + 1 > 3
                  /\ ~endswith(InputLines[i], <<"\\">>)

\* a one-character statement followed by a statement was rendered with
\* the marker
C15_Witness ==
    /\ u_pc = "ret"
    /\ Len(InputLines) = 2
    /\ Len(InputLines[1]) = 1
    /\ IsMarkedLine(1)
    /\ startswith(TranscriptLines[2], STATEMENT_MARK)

\* the test cells of the master notebook, in order
MasterTestCells == SelectSeq(cells, is_test_cell)

\* the last line of a transcript
ExpectedOutput(case) == split(case.code)[Len(split(case.code))]

\* C16: Outputs are never carried into a generated view.  When gen_views is
\* done, under every combination of the options, every cell of the
\* autograder notebook and of the student notebook has no outputs, and the
\* expected output of every case of every test file is the output text of
\* a master test cell of that question and tier.
C16_OutputsNeverCarried ==
    pc = "done" =>
        /\ \A k \in 1..Len(autograder_dir.nb) : autograder_dir.nb[k].outputs = <<>>
        /\ \A k \in 1..Len(student_dir.nb) : student_dir.nb[k].outputs = <<>>
        /\ Len(MasterTestCells) = Len(scanned)
        /\ \A f \in autograder_dir.tests \cup student_dir.tests :
              \A j \in 1..Len(f.test.suites[1].cases) :
                  \E i \in 1..Len(scanned) :
                      /\ scanned[i].name = f.test.name.v
                      /\ read_test(MasterTestCells[i]).hidden = f.test.hidden
                      /\ MasterTestCells[i].outputs # <<>>
                      /\ read_test(MasterTestCells[i]).output = ExpectedOutput(f.test.suites[1].cases[j])

\* a finished run whose master notebook has a code cell with outputs that
\* was emitted and a test cell with outputs that was compiled
C16_Witness ==
    /\ pc = "done"
    /\ \E k \in 1..Len(cells) : ~is_test_cell(cells[k]) /\ cells[k].outputs # <<>>
    /\ \E k \in 1..Len(ok_cells) : ok_cells[k].outputs # <<>>
    /\ student_dir.tests # {}

\* C17: Buffer invariant of the Segmenter.  After any prefix of the cells,
\* when no question is open (Idle) or the open question has not had its
\* first response cell (AwaitingResponse), tests and hidden_tests are empty
\* and md_has_prompt is false: tests are buffered in InResponse only and a
\* close resets the three together.
C17_BufferInvariant ==
    (pc = "scan" /\ SegState \in {"Idle", "AwaitingResponse"}) =>
        /\ tests = <<>>
        /\ hidden_tests = <<>>
        /\ ~md_has_prompt

\* a manual question with a visible prompt and a buffered test was closed
C17_Witness ==
    /\ pc = "scan"
    /\ SegState = "Idle"
    /\ seg_before = "InResponse"
    /\ scanned # <<>>
    /\ manual_questions # <<>>
    /\ Len(cells) = 4
    /\ ~is_solution_cell(cells[2])

\* a cell the Segmenter synthesizes: an answer placeholder, a grading cell,
\* an end-of-question marker
IsSynthesized(c) == c = Placeholder \/ IsGradingCell(c) \/ c = gen_close_export_cell

\* e is the rendering of the master question cell m: locked, its lines the
\* lines of m with the opening fence made "<!--" and the closing fence
\* "-->", behind the two-line manual prefix when the question is manual
IsRenderingOf(e, m) ==
    LET prefix == IF is_manual(read_question_metadata(m))
                  THEN <<BEGIN_QUESTION_COMMENT, <<>>>> ELSE <<>>
        lines == get_source(m)
        fences == block_quotes(lines)
    IN  /\ e.cell_type = "markdown"
        /\ e.metadata = [editable |-> FALSE, deletable |-> FALSE]
        /\ e.outputs = m.outputs
        /\ Len(fences) = 2
        /\ get_source(e) = prefix \o [k \in 1..Len(lines) |->
                                         IF k = fences[1] THEN COMMENT_OPEN
                                         ELSE IF k = fences[2] THEN COMMENT_CLOSE
                                         ELSE lines[k]]

\* C18: Order preservation of the scan.  When gen_ok_cells has returned,
\* the emitted cells without the synthesized ones are the master cells
\* without the test cells, in order: a question cell as its locked
\* comment-fenced rendering, every other cell unchanged, each once.
C18_OrderPreservation ==
    pc = "returned" =>
        LET kept == SelectSeq(ok_cells, LAMBDA c : ~IsSynthesized(c))
            master == SelectSeq(cells, LAMBDA c : ~is_test_cell(c))
        IN  /\ Len(kept) = Len(master)
            /\ \A k \in 1..Len(master) :
                  IF is_question_cell(master[k])
                  THEN IsRenderingOf(kept[k], master[k])
                  ELSE kept[k] = master[k]

\* a returned scan that emitted a placeholder, a grading cell and an end
\* marker among the cells of a manual question
C18_Witness ==
    /\ pc = "returned"
    /\ \E k \in 1..Len(ok_cells) : ok_cells[k] = Placeholder
    /\ \E k \in 1..Len(ok_cells) : IsGradingCell(ok_cells[k])
    /\ \E k \in 1..Len(ok_cells) : ok_cells[k] = gen_close_export_cell
    /\ MasterTestCells # <<>>

\* the closes (question block, tier) that persisted a file: block k is the
\* k-th question opened, its name QuestionNames[k]; the tests scanned for
\* block k are those scanned between its question cell and the next one
BlockOfCell(i) == Cardinality({ j \in 1..i : is_question_cell(cells[j]) })

\* the indices in cells of the test cells, in order (scanned[i] is the i-th)
TestCellIndices ==
    LET F[k \in 0..Len(cells)] ==
            IF k = 0 THEN <<>>
            ELSE IF is_test_cell(cells[k]) THEN Append(F[k - 1], k) ELSE F[k - 1]
    IN  F[Len(cells)]

\* the (block, tier) pairs with a non-empty bucket
PersistedPairs ==
    { <<BlockOfCell(TestCellIndices[i]), scanned[i].test.hidden>> : i \in 1..Len(scanned) }

\* the cases of block b and tier h, in scan order
CasesOf(b, h) ==
    LET idx == SelectSeq([i \in 1..Len(scanned) |-> i],
                         LAMBDA i : BlockOfCell(TestCellIndices[i]) = b /\ scanned[i].test.hidden = h)
    IN  [k \in 1..Len(idx) |-> gen_case(scanned[idx[k]].test)]

\* C19: One file per question per visibility tier.  When gen_ok_cells has
\* returned, two different (question block, tier) pairs with non-empty
\* buckets have different file names, and the file of each pair is in the
\* tests directory with the cases of that pair: none was overwritten.
C19_OneFilePerBlockAndTier ==
    pc = "returned" =>
        /\ \A p1, p2 \in PersistedPairs :
              p1 # p2 => TierPath(QuestionNames[p1[1]], p1[2]) # TierPath(QuestionNames[p2[1]], p2[2])
        /\ \A p \in PersistedPairs :
              \E f \in autograder_dir.tests :
                  /\ f.path = TierPath(QuestionNames[p[1]], p[2])
                  /\ f.test.suites[1].cases = CasesOf(p[1], p[2])

\* the question blocks with a non-empty public bucket, in order
PublicBlocks ==
    SelectSeq([b \in 1..Len(QuestionNames) |-> b], LAMBDA b : <<b, FALSE>> \in PersistedPairs)

\* the name a grading cell checks
CheckedName(c) == SubSeq(c.source, Len(CHECK_OPEN) + 1, Len(c.source) - Len(CHECK_CLOSE))

\* C20: Learner view consistency between cells and files.  When gen_views
\* is done, the grading cells of the student notebook are those of the
\* questions with public tests, in order, and for each, grader.check("N"),
\* the file N.py is in the student tests directory, has hidden = False and
\* holds the public cases of the question that emitted the cell.
C20_LearnerViewConsistency ==
    pc = "done" =>
        LET gradings == SelectSeq(student_dir.nb, IsGradingCell)
        IN  /\ Len(gradings) = Len(PublicBlocks)
            /\ \A k \in 1..Len(gradings) :
                  \E f \in student_dir.tests :
                      /\ f.path = CheckedName(gradings[k]) \o PY_SUFFIX
                      /\ ~f.test.hidden
                      /\ f.test.suites[1].cases = CasesOf(PublicBlocks[k], FALSE)
=============================================================================
